---- MODULE Spec2Model ----
(***************************************************************************)
(* Model of EcommerceCrawler (src/crawlers/ecommerce/taobao_crawler.py):   *)
(* the paginated crawl loops crawl_taobao / crawl_jd, the per-item         *)
(* extraction with its float() price parse, and the CSV export.            *)
(*                                                                         *)
(* Text is modelled as a sequence of one-token strings.  TLA+ strings are  *)
(* ASCII, so the non-ASCII literals of the source are written as follows:  *)
(*   "yen"   the half-width sign U+00A5 that price.replace removes         *)
(*   "fyen"  the full-width sign U+FFE5, which price.replace leaves alone  *)
(*   "taobao" / "jingdong"   the platform tags (lines 64 and 103)          *)
(*   "mingcheng", "jiage", "xiaoliang", "dianpu", "lianjie", "pingtai"     *)
(*           the six header cells of line 122, in pinyin                   *)
(***************************************************************************)
EXTENDS Integers, Sequences, FiniteSets, TLC

VARIABLES
    pc,        \* position of the crawl: "idle", "loop", "parse", "done"
    platform,  \* which crawl method runs: "crawl_taobao" or "crawl_jd"
    pages,     \* the pages argument
    page,      \* the for-loop variable page
    items,     \* soup.select(...) of the page being processed
    idx,       \* position of the inner for loop in items (1-based)
    products,  \* the list products
    trace,     \* history: the fetches and sleeps performed so far, in order
    origin,    \* history: for each element of products, <<page, index>> of its fragment
    csvFile,   \* the rows of the file written by save_to_csv (<<>>: not written)
    jsonFile,  \* the file written by save_to_json
    csvOut,    \* history: the content of the CSV file after each save_to_csv call
    jsonOut,   \* history: the content of the JSON file after each save_to_json call
    conversation_history  \* ChatGPT.conversation_history

vars == <<pc, platform, pages, page, items, idx, products, trace, origin, csvFile,
          jsonFile, csvOut, jsonOut, conversation_history>>

\* What the crawl never touches: the export files and the chat object
outside == <<jsonFile, csvOut, jsonOut, conversation_history>>

-----------------------------------------------------------------------------
(* Bounds *)

MaxPages == 3

\* save_to_csv and save_to_json are each called at most this many times
MaxExports == 2

\* chat is not called once conversation_history holds this many messages
MaxHistory == 4

-----------------------------------------------------------------------------
(* Text helpers *)

Digits == {"0", "1", "2", "3", "4", "5", "6", "7", "8", "9"}

DigitVal(c) ==
    CASE c = "0" -> 0 [] c = "1" -> 1 [] c = "2" -> 2 [] c = "3" -> 3
      [] c = "4" -> 4 [] c = "5" -> 5 [] c = "6" -> 6 [] c = "7" -> 7
      [] c = "8" -> 8 [] c = "9" -> 9

\* str.strip(): leading and trailing whitespace removed, interior kept
Strip(s) ==
    LET inked == {i \in 1..Len(s) : s[i] # " "}
        first == CHOOSE i \in inked : \A j \in inked : i <= j
        last  == CHOOSE i \in inked : \A j \in inked : j <= i
    IN  IF inked = {} THEN <<>> ELSE SubSeq(s, first, last)

\* element.get_text(strip=True) of an element holding one text node
get_text(el) == Strip(el.text)

\* price.replace(yen, ''): every half-width yen sign removed
replace_yen(s) == SelectSeq(s, LAMBDA c : c # "yen")

\* The number a sequence of digits denotes (0 for the empty sequence)
DigitsValue(ds) ==
    LET v[i \in 0..Len(ds)] == IF i = 0 THEN 0 ELSE 10 * v[i - 1] + DigitVal(ds[i])
    IN  v[Len(ds)]

StripTrailingZeros(ds) ==
    LET nz   == {i \in 1..Len(ds) : ds[i] # "0"}
        last == CHOOSE i \in nz : \A j \in nz : j <= i
    IN  IF nz = {} THEN <<>> ELSE SubSeq(ds, 1, last)

\* A float value: nan, or (-1)^neg * num / 10^scale with no trailing zero in
\* the fraction, so that equal values are equal records.
NaN == [nan |-> TRUE, neg |-> FALSE, num |-> 0, scale |-> 0]

Fin(neg, num, scale) == [nan |-> FALSE, neg |-> neg, num |-> num, scale |-> scale]

\* Python's float(str) on the token alphabet of the model: surrounding
\* whitespace ignored, an optional sign, then nan or a decimal numeral with
\* at least one digit and at most one point.  Anything else is ValueError
\* (ok = FALSE).
float(str) ==
    LET t      == Strip(str)
        signed == t # <<>> /\ Head(t) \in {"-", "+"}
        neg    == t # <<>> /\ Head(t) = "-"
        body   == IF signed THEN Tail(t) ELSE t
        dots   == {i \in 1..Len(body) : body[i] = "."}
        dot    == IF dots = {} THEN Len(body) + 1 ELSE CHOOSE i \in dots : TRUE
        ip     == SubSeq(body, 1, dot - 1)
        fp     == StripTrailingZeros(SubSeq(body, dot + 1, Len(body)))
        wellformed ==
            /\ \A i \in 1..Len(body) : body[i] \in Digits \cup {"."}
            /\ Cardinality(dots) <= 1
            /\ \E i \in 1..Len(body) : body[i] \in Digits
    IN  IF body = <<"nan">> THEN [ok |-> TRUE, val |-> NaN]
        ELSE IF wellformed
             THEN [ok |-> TRUE, val |-> Fin(neg, DigitsValue(ip \o fp), Len(fp))]
             ELSE [ok |-> FALSE, val |-> NaN]

-----------------------------------------------------------------------------
(* Product and the per-item extraction *)

Product(name, price, sales, shop, url, plat) ==
    [name |-> name, price |-> price, sales |-> sales, shop |-> shop,
     url |-> url, platform |-> plat]

\* A sub-element of an item fragment as select_one sees it: absent (None) or
\* present with its text.
None == [present |-> FALSE, text |-> <<>>]

El(text) == [present |-> TRUE, text |-> text]

\* The first anchor of a fragment: absent, present without an href
\* attribute, or present with one.
NoLink == [present |-> FALSE, hasHref |-> FALSE, href |-> <<>>]

LinkNoHref == [present |-> TRUE, hasHref |-> FALSE, href |-> <<>>]

Link(href) == [present |-> TRUE, hasHref |-> TRUE, href |-> href]

Item(title, price, sales, shop, a) ==
    [title |-> title, price |-> price, sales |-> sales, shop |-> shop, a |-> a]

\* item.select_one('a')['href'] raises KeyError when the anchor has no href
hrefKeyError(item) == item.a.present /\ ~item.a.hasHref

\* Body of the inner try of crawl_taobao: ok = FALSE when an exception sends
\* control to the bare except (continue); otherwise rec is the appended Product.
taobao_item(item) ==
    LET name  == IF item.title.present THEN get_text(item.title) ELSE <<>>
        price == IF item.price.present THEN get_text(item.price) ELSE <<"0">>
        sales == IF item.sales.present THEN get_text(item.sales) ELSE <<"0">>
        shop  == IF item.shop.present THEN get_text(item.shop) ELSE <<>>
        url   == IF item.a.present THEN item.a.href ELSE <<>>
        f     == float(replace_yen(price))
    IN  [ok  |-> ~hrefKeyError(item) /\ f.ok,
         rec |-> Product(name, f.val, sales, shop, url, "taobao")]

\* Body of the inner try of crawl_jd
jd_item(item) ==
    LET name  == IF item.title.present THEN get_text(item.title) ELSE <<>>
        price == IF item.price.present THEN get_text(item.price) ELSE <<"0">>
        shop  == IF item.shop.present THEN get_text(item.shop) ELSE <<>>
        url   == IF item.a.present THEN <<"https:">> \o item.a.href ELSE <<>>
        f     == float(replace_yen(price))
    IN  [ok  |-> ~hrefKeyError(item) /\ f.ok,
         rec |-> Product(name, f.val, <<"0">>, shop, url, "jingdong")]

-----------------------------------------------------------------------------
(* The pages the upstream site may serve *)

fGood    == Item(El(<<"a">>), El(<<"yen", "1", ".", "5">>), El(<<"9">>), El(<<"s">>),
                 Link(<<"//", "h", "/", "1">>))

fBare    == Item(None, El(<<" ", "2", "0">>), None, None, NoLink)

fAbs     == Item(El(<<" ", "b", " ">>), El(<<"3">>), None, El(<<"t">>),
                 Link(<<"https:", "//", "h", "/", "2">>))

fInquire == Item(El(<<"c">>), El(<<"x">>), El(<<"1">>), El(<<"s">>),
                 Link(<<"//", "h", "/", "3">>))

fNeg     == Item(El(<<"d">>), El(<<"yen", "-", "1">>), None, None, NoLink)

fNaN     == Item(El(<<"e">>), El(<<"nan">>), None, None, NoLink)

fFullYen == Item(El(<<"f">>), El(<<"fyen", "7">>), None, None, NoLink)

fNoPrice == Item(El(<<"g">>), None, El(<<"4">>), El(<<"s">>),
                 Link(<<"//", "h", "/", "4">>))

fNoHref  == Item(El(<<"h">>), El(<<"0", ".", "5", "0">>), None, None, LinkNoHref)

\* soup.select(...) of a fetched page: zero or more fragments in document order
PageContents ==
    { <<>>,
      <<fGood, fInquire, fBare>>,
      <<fAbs, fGood>>,
      <<fInquire, fFullYen>>,
      <<fNeg, fNaN>>,
      <<fNoPrice>>,
      <<fNoHref, fAbs>> }

Platforms == {"crawl_taobao", "crawl_jd"}

\* Every fragment some page holds
Fragments == UNION { {content[i] : i \in 1..Len(content)} : content \in PageContents }

\* The outcome of the inner try for each crawl method and fragment, tabulated
ItemTable ==
    [plat \in Platforms |->
        [item \in Fragments |->
            IF plat = "crawl_taobao" THEN taobao_item(item) ELSE jd_item(item)]]

\* The inner try of the crawl method plat on item
parse_item(plat, item) == ItemTable[plat][item]

-----------------------------------------------------------------------------
(* History records *)

FetchEv(p, ok, frags) == [ev |-> "fetch", page |-> p, ok |-> ok, frags |-> frags]

SleepEv(p) == [ev |-> "sleep", page |-> p, ok |-> TRUE, frags |-> <<>>]

-----------------------------------------------------------------------------
(* The crawl: crawl_taobao / crawl_jd *)

\* The JSON file before save_to_json has written it
NoFile == [written |-> FALSE, data |-> <<>>]

Init ==
    /\ pc = "idle"
    /\ platform = "crawl_taobao"
    /\ pages = 0
    /\ page = 1
    /\ items = <<>>
    /\ idx = 1
    /\ products = <<>>
    /\ trace = <<>>
    /\ origin = <<>>
    /\ csvFile = <<>>
    /\ jsonFile = NoFile
    /\ csvOut = <<>>
    /\ jsonOut = <<>>
    /\ conversation_history = <<>>

\* The call: products = [] and the for loop starts at page 1
Crawl ==
    /\ pc = "idle"
    /\ \E plat \in Platforms, n \in 0..MaxPages :
          /\ platform' = plat
          /\ pages' = n
    /\ products' = <<>>
    /\ page' = 1
    /\ pc' = "loop"
    /\ UNCHANGED <<items, idx, trace, origin, csvFile, outside>>

\* session.get and BeautifulSoup succeed; items = soup.select(...)
FetchOk ==
    /\ pc = "loop"
    /\ page <= pages
    /\ \E content \in PageContents :
          /\ items' = content
          /\ trace' = Append(trace, FetchEv(page, TRUE, content))
    /\ idx' = 1
    /\ pc' = "parse"
    /\ UNCHANGED <<platform, pages, page, products, origin, csvFile, outside>>

\* Variant: a failed fetch ends the page loop
FetchFailAborts ==
    /\ pc = "loop"
    /\ page <= pages
    /\ trace' = Append(trace, FetchEv(page, FALSE, <<>>))
    /\ pc' = "done"
    /\ UNCHANGED <<platform, pages, page, items, idx, products, origin, csvFile, outside>>

\* Variant: a failed fetch is tried again
FetchFailRetries ==
    /\ pc = "loop"
    /\ page <= pages
    /\ trace' = Append(trace, FetchEv(page, FALSE, <<>>))
    /\ UNCHANGED <<pc, platform, pages, page, items, idx, products, origin, csvFile, outside>>

\* Variant: no outer except, the exception leaves the crawl
FetchFailRaises ==
    /\ pc = "loop"
    /\ page <= pages
    /\ trace' = Append(trace, FetchEv(page, FALSE, <<>>))
    /\ pc' = "raised"
    /\ UNCHANGED <<platform, pages, page, items, idx, products, origin, csvFile, outside>>

\* session.get (or the markup parse) raises: the outer except prints and
\* continues with the next page; time.sleep is skipped.
FetchFail ==
    /\ pc = "loop"
    /\ page <= pages
    /\ trace' = Append(trace, FetchEv(page, FALSE, <<>>))
    /\ page' = page + 1
    /\ UNCHANGED <<pc, platform, pages, items, idx, products, origin, csvFile, outside>>

\* Variant: an item that raises ends the item loop (break for continue)
ParseItemBreaks ==
    /\ pc = "parse"
    /\ idx <= Len(items)
    /\ LET r == parse_item(platform, items[idx])
       IN  IF r.ok
           THEN /\ products' = Append(products, r.rec)
                /\ origin' = Append(origin, <<page, idx>>)
                /\ idx' = idx + 1
           ELSE /\ UNCHANGED <<products, origin>>
                /\ idx' = Len(items) + 1
    /\ UNCHANGED <<pc, platform, pages, page, items, trace, csvFile, outside>>

\* Variant: the Product is inserted at the front (insert(0, ...) for append)
ParseItemPrepends ==
    /\ pc = "parse"
    /\ idx <= Len(items)
    /\ LET r == parse_item(platform, items[idx])
       IN  IF r.ok
           THEN /\ products' = <<r.rec>> \o products
                /\ origin' = <<<<page, idx>>>> \o origin
           ELSE UNCHANGED <<products, origin>>
    /\ idx' = idx + 1
    /\ UNCHANGED <<pc, platform, pages, page, items, trace, csvFile, outside>>

\* One iteration of "for item in items": append the Product, or continue
\* when anything in the inner try raised.
ParseItem ==
    /\ pc = "parse"
    /\ idx <= Len(items)
    /\ LET r == parse_item(platform, items[idx])
       IN  IF r.ok
           THEN /\ products' = Append(products, r.rec)
                /\ origin' = Append(origin, <<page, idx>>)
           ELSE UNCHANGED <<products, origin>>
    /\ idx' = idx + 1
    /\ UNCHANGED <<pc, platform, pages, page, items, trace, csvFile, outside>>

\* The inner loop is exhausted: time.sleep(random.uniform(1, 3)), then the
\* next iteration of the page loop.
Sleep ==
    /\ pc = "parse"
    /\ idx > Len(items)
    /\ trace' = Append(trace, SleepEv(page))
    /\ page' = page + 1
    /\ pc' = "loop"
    /\ UNCHANGED <<platform, pages, items, idx, products, origin, csvFile, outside>>

\* range(1, pages + 1) is exhausted: return products
Return ==
    /\ pc = "loop"
    /\ page > pages
    /\ pc' = "done"
    /\ UNCHANGED <<platform, pages, page, items, idx, products, trace, origin, csvFile, outside>>

-----------------------------------------------------------------------------
(* save_to_csv *)

DigitChar(d) ==
    CASE d = 0 -> "0" [] d = 1 -> "1" [] d = 2 -> "2" [] d = 3 -> "3"
      [] d = 4 -> "4" [] d = 5 -> "5" [] d = 6 -> "6" [] d = 7 -> "7"
      [] d = 8 -> "8" [] d = 9 -> "9"

RECURSIVE NatDigits(_)
NatDigits(n) ==
    IF n < 10 THEN <<DigitChar(n)>>
    ELSE NatDigits(n \div 10) \o <<DigitChar(n % 10)>>

RECURSIVE ZeroPad(_, _)
ZeroPad(ds, width) == IF Len(ds) >= width THEN ds ELSE ZeroPad(<<"0">> \o ds, width)

\* str(float), which csv.writer applies to the price cell: nan, or sign,
\* integer digits, a point and at least one fraction digit.
str_float(v) ==
    IF v.nan THEN <<"nan">>
    ELSE LET ds == ZeroPad(NatDigits(v.num), v.scale + 1)
             ip == SubSeq(ds, 1, Len(ds) - v.scale)
             fp == IF v.scale = 0 THEN <<"0">>
                   ELSE SubSeq(ds, Len(ds) - v.scale + 1, Len(ds))
         IN  (IF v.neg THEN <<"-">> ELSE <<>>) \o ip \o <<".">> \o fp

\* writer.writerow([...]) of line 122
Header ==
    << <<"mingcheng">>, <<"jiage">>, <<"xiaoliang">>, <<"dianpu">>,
       <<"lianjie">>, <<"pingtai">> >>

\* writer.writerow([p.name, p.price, p.sales, p.shop, p.url, p.platform])
csv_row(p) == <<p.name, str_float(p.price), p.sales, p.shop, p.url, <<p.platform>> >>

\* Variant: no header row is written
save_to_csv_no_header ==
    /\ pc = "done"
    /\ Len(csvOut) < MaxExports
    /\ csvFile' = [i \in 1..Len(products) |-> csv_row(products[i])]
    /\ csvOut' = Append(csvOut, csvFile')
    /\ UNCHANGED <<pc, platform, pages, page, items, idx, products, trace, origin,
                   jsonFile, jsonOut, conversation_history>>

\* Variant: the file is opened for appending ('a' for 'w')
save_to_csv_appends ==
    /\ pc = "done"
    /\ Len(csvOut) < MaxExports
    /\ csvFile' = csvFile \o <<Header>>
                     \o [i \in 1..Len(products) |-> csv_row(products[i])]
    /\ csvOut' = Append(csvOut, csvFile')
    /\ UNCHANGED <<pc, platform, pages, page, items, idx, products, trace, origin,
                   jsonFile, jsonOut, conversation_history>>

\* open(filename, 'w') truncates; the header row, then one row per product
save_to_csv ==
    /\ pc = "done"
    /\ Len(csvOut) < MaxExports
    /\ csvFile' = <<Header>> \o [i \in 1..Len(products) |-> csv_row(products[i])]
    /\ csvOut' = Append(csvOut, csvFile')
    /\ UNCHANGED <<pc, platform, pages, page, items, idx, products, trace, origin,
                   jsonFile, jsonOut, conversation_history>>

-----------------------------------------------------------------------------
(* save_to_json *)

\* json.dump of a float: float.__repr__, except that nan is written NaN
json_float(v) == IF v.nan THEN <<"NaN">> ELSE str_float(v)

\* One element of data: the six keys in the order of the dict literal
json_object(p) ==
    << <<"name", p.name>>, <<"price", json_float(p.price)>>, <<"sales", p.sales>>,
       <<"shop", p.shop>>, <<"url", p.url>>, <<"platform", <<p.platform>> >> >>

\* open(filename, 'w') truncates; json.dump(data, f, ensure_ascii=False, indent=2)
save_to_json ==
    /\ pc = "done"
    /\ Len(jsonOut) < MaxExports
    /\ jsonFile' = [written |-> TRUE,
                    data |-> [i \in 1..Len(products) |-> json_object(products[i])]]
    /\ jsonOut' = Append(jsonOut, jsonFile')
    /\ UNCHANGED <<pc, platform, pages, page, items, idx, products, trace, origin,
                   csvFile, csvOut, conversation_history>>

-----------------------------------------------------------------------------
(* ChatGPT.chat and ChatGPT.clear_history (src/ai/chatgpt/chatgpt_tool.py) *)

Messages == {"m1", "m2"}

Replies == {"r1", "r2"}

Msg(role, content) == [role |-> role, content |-> content]

crawlVars == <<pc, platform, pages, page, items, idx, products, trace, origin,
               csvFile, jsonFile, csvOut, jsonOut>>

\* chat(message) when the completion request returns: the user message is
\* appended, then the assistant reply
chat ==
    /\ Len(conversation_history) + 2 <= MaxHistory
    /\ \E message \in Messages, reply \in Replies :
          conversation_history' =
              Append(Append(conversation_history, Msg("user", message)),
                     Msg("assistant", reply))
    /\ UNCHANGED crawlVars

\* chat(message) when client.chat.completions.create raises: the user
\* message is already appended (line 56) and stays
chat_raises ==
    /\ Len(conversation_history) + 1 <= MaxHistory
    /\ \E message \in Messages :
          conversation_history' = Append(conversation_history, Msg("user", message))
    /\ UNCHANGED crawlVars

clear_history ==
    /\ conversation_history' = <<>>
    /\ UNCHANGED crawlVars

-----------------------------------------------------------------------------
(* Specifications *)

CrawlStep == FetchOk \/ FetchFail \/ ParseItem \/ Sleep \/ Return

Next ==
    \/ Crawl \/ FetchOk \/ FetchFail \/ ParseItem \/ Sleep \/ Return
    \/ save_to_csv \/ save_to_json

Spec == Init /\ [][Next]_vars

\* The crawl is sequential blocking code: once called, it keeps executing.
FairSpec == Spec /\ WF_vars(CrawlStep)

\* A ChatGPT object and the calls made on it
ChatNext == chat \/ chat_raises \/ clear_history

ChatSpec == Init /\ [][ChatNext]_vars

-----------------------------------------------------------------------------
(* Vocabulary of the properties *)

IsFetch(e) == e.ev = "fetch"

\* The fetch attempts made so far, in order
Fetches == SelectSeq(trace, IsFetch)

\* price >= 0 on a float; false for nan, true for negative zero
NonNegative(v) == ~v.nan /\ (~v.neg \/ v.num = 0)

\* The price element is there and its text, the currency sign removed, is no number
PriceMalformed(item) ==
    item.price.present /\ ~float(replace_yen(get_text(item.price))).ok

\* The price element is there and its text, the currency sign removed, is a number
PriceParseable(item) ==
    item.price.present /\ float(replace_yen(get_text(item.price))).ok

\* Nothing in the fragment makes the extraction raise
WellFormed(item) == ~PriceMalformed(item) /\ ~hrefKeyError(item)

RecordOf(plat, item) == parse_item(plat, item).rec

\* The records of a list of fragments: one per well-formed fragment, in order
KeptRecords(plat, frags) ==
    LET k == SelectSeq(frags, WellFormed)
    IN  [i \in 1..Len(k) |-> RecordOf(plat, k[i])]

\* The records of the pages of a list of fetches, concatenated in order; a
\* failed fetch contributes none
RECURSIVE ConcatPages(_, _)
ConcatPages(plat, fs) ==
    IF fs = <<>> THEN <<>>
    ELSE ConcatPages(plat, SubSeq(fs, 1, Len(fs) - 1))
            \o (IF fs[Len(fs)].ok THEN KeptRecords(plat, fs[Len(fs)].frags) ELSE <<>>)

IsPrefix(s, t) == Len(s) <= Len(t) /\ SubSeq(t, 1, Len(s)) = s

LexLess(a, b) == a[1] < b[1] \/ (a[1] = b[1] /\ a[2] < b[2])

-----------------------------------------------------------------------------
(* C1 *)

\* C1 (page isolation): when the crawl has returned, for every page k whose
\* fetch failed, every page after k up to pages was still attempted, no
\* record of the result comes from page k, and the result is the
\* concatenation, in ascending page order, of the records of the pages
\* whose fetch succeeded.
PageIsolation ==
    pc = "done" =>
        \A k \in 1..Len(Fetches) :
            ~Fetches[k].ok =>
                /\ Len(Fetches) = pages
                /\ \A j \in (k + 1)..pages : Fetches[j].page = j
                /\ \A i \in 1..Len(origin) : origin[i][1] # k
                /\ products = ConcatPages(platform, Fetches)

PageIsolationWitness ==
    /\ pc = "done"
    /\ \E k \in 1..(Len(Fetches) - 1) :
          /\ ~Fetches[k].ok
          /\ Fetches[k + 1].ok
          /\ \E i \in 1..Len(origin) : origin[i][1] = k + 1

-----------------------------------------------------------------------------
(* C2 *)

\* C2 (iteration count): the fetch attempts made so far are for the pages
\* 1, 2, 3, ... in that order, each once, never more than pages of them, and
\* when the crawl has returned there are exactly pages of them (none for
\* pages = 0), whatever the pages yielded and whichever fetches failed.
IterationCount ==
    /\ \A i \in 1..Len(Fetches) : Fetches[i].page = i
    /\ Len(Fetches) <= pages
    /\ pc = "done" => Len(Fetches) = pages

IterationCountWitness ==
    /\ pc = "done"
    /\ pages >= 2
    /\ \E i \in 1..Len(Fetches) : Fetches[i].ok /\ Fetches[i].frags = <<>>
    /\ \E i \in 1..Len(Fetches) : ~Fetches[i].ok

-----------------------------------------------------------------------------
(* C3 *)

\* C3 (price invariant, as claimed): in every state every record of
\* products has a numeric price that is >= 0.
PriceInvariant ==
    \A i \in 1..Len(products) : NonNegative(products[i].price)

-----------------------------------------------------------------------------
(* C4 *)

-----------------------------------------------------------------------------
(* C5 *)

\* C5 (termination): a crawl that has been called, whatever its page count
\* and whichever fetches and items fail, eventually returns.
CrawlTerminates == (pc \in {"loop", "parse"}) ~> (pc = "done")

\* Returned with nothing: a failed fetch, and a page whose items all failed
CrawlTerminatesWitness ==
    /\ pc = "done"
    /\ pages >= 2
    /\ products = <<>>
    /\ \E i \in 1..Len(Fetches) : ~Fetches[i].ok
    /\ \E i \in 1..Len(Fetches) : Fetches[i].ok /\ Fetches[i].frags # <<>>

-----------------------------------------------------------------------------
(* C6 *)

\* C6 (as claimed): the extraction of a fragment that has no price element
\* adds no record to products.
MissingPriceDiscarded ==
    [][(pc = "parse" /\ idx <= Len(items) /\ ~items[idx].price.present)
          => products' = products]_vars

-----------------------------------------------------------------------------
(* C7 *)

\* C7 (as claimed): the extraction of a fragment whose price text parses adds
\* exactly one record to products, whatever its other sub-elements are, a
\* link element without href included.
PricedFragmentYieldsRecord ==
    [][(pc = "parse" /\ idx <= Len(items) /\ PriceParseable(items[idx]))
          => Len(products') = Len(products) + 1]_vars

-----------------------------------------------------------------------------
(* C8 *)

\* C8 (as claimed): when the crawl has returned, its fetches and waits
\* alternate, fetch 1, wait, fetch 2, wait, ..., fetch N: one wait between
\* any two successive fetches whether or not the earlier one succeeded, none
\* before the first fetch and none after the last.
WaitPlacement ==
    pc = "done" =>
        /\ Len(trace) = (IF pages = 0 THEN 0 ELSE 2 * pages - 1)
        /\ \A j \in 1..Len(trace) :
              trace[j].ev = (IF j % 2 = 1 THEN "fetch" ELSE "sleep")

-----------------------------------------------------------------------------
(* C9 *)

\* The records of products stand in the order of their fragments: by page,
\* and within a page by position; each is the record of its fragment.
FetchOrder ==
    /\ Len(origin) = Len(products)
    /\ \A i \in 1..Len(origin) :
          /\ origin[i][1] \in 1..Len(Fetches)
          /\ origin[i][2] \in 1..Len(Fetches[origin[i][1]].frags)
          /\ products[i] = RecordOf(platform, Fetches[origin[i][1]].frags[origin[i][2]])
    /\ \A i, j \in 1..Len(origin) : i < j => LexLess(origin[i], origin[j])
    /\ (pc = "done" /\ pages = 0) => products = <<>>

\* C9 (ordered append-only aggregation): every step leaves the list it
\* found as a prefix of the list it leaves (nothing removed, reordered or
\* modified), and in every state the records are in ascending page order
\* and, within a page, in fragment order, with none repeated; a crawl of 0
\* pages returns the empty list.
AppendOnlyOrdered == [][IsPrefix(products, products')]_vars /\ []FetchOrder

AppendOnlyOrderedWitness ==
    /\ pc = "done"
    /\ \E i, j, k \in 1..Len(origin) :
          /\ i < j /\ j < k
          /\ origin[i][1] = origin[j][1]
          /\ origin[j][1] < origin[k][1]

-----------------------------------------------------------------------------
(* C10 *)

\* The rows after the header: one per record, in the order of products, its
\* six fields in the order name, price, sales, shop, url, platform; the
\* price cell is text that reads back as the record's price.
DataRows ==
    /\ Len(csvFile) = Len(products) + 1
    /\ \A i \in 1..Len(products) :
          LET row == csvFile[i + 1]
              p   == products[i]
          IN  /\ Len(row) = 6
              /\ row[1] = p.name
              /\ float(row[2]).ok /\ float(row[2]).val = p.price
              /\ row[3] = p.sales
              /\ row[4] = p.shop
              /\ row[5] = p.url
              /\ row[6] = <<p.platform>>

-----------------------------------------------------------------------------
(* C11 *)

\* Every export so far left the same content in its file, the content of a
\* single export of products: a later export replaced the earlier one.
SameOutput ==
    /\ \A i \in 1..Len(csvOut) :
          /\ csvOut[i] = csvOut[1]
          /\ Len(csvOut[i]) = Len(products) + 1
          /\ csvFile = csvOut[i]
    /\ \A i \in 1..Len(jsonOut) :
          /\ jsonOut[i] = jsonOut[1]
          /\ jsonOut[i].written /\ Len(jsonOut[i].data) = Len(products)
          /\ jsonFile = jsonOut[i]

\* C11 (export idempotence): every save_to_csv call on the returned sequence
\* leaves the same file content as the first one did, and so does every
\* save_to_json call; the file holds the content of one export, not of two;
\* and once the crawl has returned no export changes the record sequence.
ExportIdempotence == []SameOutput /\ [][pc = "done" => products' = products]_vars

ExportIdempotenceWitness ==
    /\ Len(csvOut) = 2
    /\ Len(jsonOut) = 2
    /\ Len(products) >= 2

-----------------------------------------------------------------------------
(* C12 *)

Schemes == {"http:", "https:"}

\* A scheme, the two slashes, a host, and no second scheme after that
Absolute(u) ==
    /\ Len(u) >= 3
    /\ u[1] \in Schemes
    /\ u[2] = "//"
    /\ \A j \in 2..Len(u) : u[j] \notin Schemes

\* C12 (as claimed): the url of every record of products is empty or an
\* absolute link: a protocol-relative href is completed with a scheme on
\* every platform, and an absolute href is not prefixed a second time.
LinkNormalized ==
    \A i \in 1..Len(products) :
        products[i].url = <<>> \/ Absolute(products[i].url)

-----------------------------------------------------------------------------
(* C13 *)

\* Even length, user and assistant alternating, a user message first
Alternating ==
    /\ Len(conversation_history) % 2 = 0
    /\ \A i \in 1..Len(conversation_history) :
          conversation_history[i].role = (IF i % 2 = 1 THEN "user" ELSE "assistant")

\* C13 (as claimed): after any sequence of chat and clear_history calls the
\* history has even length and alternates user, assistant, ..., and a chat
\* call whose completion request raises leaves the history as it was.
HistoryWellFormed ==
    /\ []Alternating
    /\ [][chat_raises => conversation_history' = conversation_history]_vars

====
